---- MODULE Spec2Model ----
(***************************************************************************)
(* MedCall: the emergency lifecycle, the notification fan-out and the      *)
(* staff performance recalculation of the core app.                        *)
(*                                                                         *)
(* Reading of the sources.                                                 *)
(*  - core/models.py is the schema.  core/signals.py and the active        *)
(*    EmergencyViewSet name an Emergency's staff `assigned_staff` and a    *)
(*    staff's role `staff.role`; on the schema of models.py these are the  *)
(*    Staff profile of `assigned_user` (the lookup PatientViewSet.call     *)
(*    does itself, views.py:198-203) and the Role of the staff's user      *)
(*    (accounts.UserRole).  The StaffPerformance row is keyed by that      *)
(*    user (models.py:149).                                                *)
(*  - assign, accept and reach exist only in the commented EmergencyViewSet*)
(*    of views.py:461-792; they are modelled from it.  resolve exists in   *)
(*    both versions; both are modelled (Resolve, ResolveCommented).        *)
(*  - the post_save receivers of core/signals.py run inside every save().  *)
(*  - message texts are not part of the state.                             *)
(*  - core is written against a User that has get_full_name() and         *)
(*    username (models.py:61, 65, 170); the calls are taken to succeed.    *)
(*  - escalated_to is written by no view; the Emergency change form of    *)
(*    core/admin.py is its only write path, and a change form runs in one  *)
(*    transaction.                                                         *)
(*  - time is a counter; every request that reaches the store takes one    *)
(*    tick, NoTime is a NULL timestamp.                                    *)
(***************************************************************************)
EXTENDS Integers, Sequences, FiniteSets, Bags, TLC

\* ---- bounds of the model
MaxTime == 3
MaxEm == 2
MaxRows == 3

\* ---- NULL values
None == "none"
NoTime == 0
NoEm == 0

\* ---- the directory: users, their roles, staff profiles, rooms, patients
Users == {"u1", "u2"}
RoleOf == [u \in Users |-> IF u = "u2" THEN "admin" ELSE "nurse"]
StaffUsers == Users
Rooms == {"r1", "r2"}
Patients == {"p1", "p2", "p3"}
RoomPatient == [r \in Rooms |-> IF r = "r1" THEN "p1" ELSE "p2"]
PatientRooms(p) == {r \in Rooms : RoomPatient[r] = p}

PRIORITY_CHOICES == {"low", "medium", "high", "critical"}
STATUS_CHOICES ==
    {"pending", "notified", "assigned", "accepted", "in_progress",
     "resolved", "cancelled", "escalated"}
Terminal == {"resolved", "cancelled"}

\* inputs of the requests
PriorityInputs == {"high", None}
RoomInputs == {"r1", None}
UserIdInputs == Users \cup {None, "ghost"}
\* PATCH bodies: one writable field and its new value
PatchInputs ==
    {<<"status", "cancelled">>, <<"status", "escalated">>, <<"assigned_user", None>>}

VARIABLES
    now,                \* the clock
    emergencies,        \* Emergency rows, by id 1..Len
    last_call_priority, \* Room.last_call_priority
    is_available,       \* Staff.is_available
    notifications,      \* Notification rows (a bag)
    performance,        \* StaffPerformance row of each staff user
    resp,               \* the last response sent
    inflight,           \* accept requests between their read and their write
    backend,            \* what the database does with a NULL in a NOT NULL
                        \* column under ignore_conflicts: "raises" or "skips"
    returned,           \* what the last recalc_staff_performance returned
    workers,            \* recalc_staff_performance calls between their
                        \* queries and their update_or_create
    slugs,              \* the slug column of the User and Emergency tables
    saves               \* save() calls between their queries and their INSERT

vars ==
    <<now, emergencies, last_call_priority, is_available, notifications,
      performance, resp, inflight, backend, returned, workers,
      slugs, saves>>

EmIds == 1..Len(emergencies)

\* ------------------------------------------------------------------
\* Emergency rows
\* ------------------------------------------------------------------
NewEmergency(room, patient, priority, t) ==
    [room |-> room, patient |-> patient, priority |-> priority,
     status |-> "pending", assigned_user |-> None, accepted_by |-> None,
     escalated_to |-> None, created_at |-> t, acknowledged_at |-> NoTime,
     accepted_at |-> NoTime, reached_at |-> NoTime, resolved_at |-> NoTime]

\* ------------------------------------------------------------------
\* Notifications
\* ------------------------------------------------------------------
\* a row saved through Notification.save() gets a generated slug ("gen");
\* a row of bulk_create keeps the blank default, and slug is unique
Notif(user, role, em, type, slug) ==
    [user |-> user, role |-> role, emergency |-> em, type |-> type, slug |-> slug,
     is_read |-> FALSE, read_at |-> NoTime]

send_notification(n, em, user, role, type) ==
    n (+) SetToBag({Notif(user, role, em, type, "gen")})

HasBlankSlug(n) == \E x \in BagToSet(n) : x.slug = ""

\* bulk_create(rows, ignore_conflicts=True): save() is not called, so every
\* row carries slug ""; the first row is inserted when no stored row has the
\* blank slug, every other row conflicts on the unique slug and is dropped.
\* `first` is the row the database takes first.
bulk_create(n, rows, first) ==
    IF rows = {} \/ HasBlankSlug(n) THEN n
    ELSE n (+) SetToBag({first})

AvailableStaff == {s \in StaffUsers : is_available[s]}
NewCallRows(em) == {Notif(s, RoleOf[s], em, "new_call", "") : s \in AvailableStaff}
Admins == {u \in Users : RoleOf[u] = "admin"}
ResolvedRows(em) == {Notif(a, RoleOf[a], em, "update", "") : a \in Admins}
\* the rows the database may take first; one placeholder when none is inserted
FirstOf(rows) ==
    IF rows = {} \/ HasBlankSlug(notifications)
    THEN {Notif(None, None, NoEm, "", "")}
    ELSE rows

\* the escalation branch of handle_emergency_notifications passes the Role
\* of escalated_to as `user` of the new Notification; Notification.user is a
\* ForeignKey to User, so the constructor raises ValueError and no row is
\* made
EscalationRaises(em) == em.status = "escalated" /\ em.escalated_to # None

\* a handler that creates nothing when an Emergency is updated
EmergencyUpdatedSilent(n, id, em, first) == n

\* handle_emergency_notifications, created=False
EmergencyUpdatedNotifs(n, id, em, first) ==
    LET n1 == IF em.assigned_user # None
              THEN n (+) SetToBag({Notif(em.assigned_user, RoleOf[em.assigned_user],
                                         id, "assignment", "gen")})
              ELSE n
        n2 == IF em.status = "resolved" /\ em.assigned_user # None
              THEN n1 (+) SetToBag({Notif(em.assigned_user, RoleOf[em.assigned_user],
                                          id, "info", "gen")})
              ELSE n1
        n3 == IF em.status = "resolved"
              THEN bulk_create(n2, ResolvedRows(id), first)
              ELSE n2
    IN  n3

\* ------------------------------------------------------------------
\* Performance recalculation
\* ------------------------------------------------------------------
RECURSIVE SumDuration(_, _, _)
SumDuration(ems, ids, stamp) ==
    IF ids = {} THEN 0
    ELSE LET i == CHOOSE x \in ids : TRUE
         IN  (ems[i][stamp] - ems[i].created_at) + SumDuration(ems, ids \ {i}, stamp)

\* a recalculation that counts the Emergencies the staff accepted
AcceptedBy(ems, u) == {i \in 1..Len(ems) : ems[i].accepted_by = u}

AssignedTo(ems, u) == {i \in 1..Len(ems) : ems[i].assigned_user = u}

\* a rate that is not divided by the number of assigned Emergencies
ResolutionRateUndivided(resolved, total) == 10000 * resolved

\* resolution_rate in hundredths of a percent: round(resolved/total*100, 2)
ResolutionRate(resolved, total) ==
    IF total = 0 THEN 0 ELSE (2 * 10000 * resolved + total) \div (2 * total)

\* Avg over the rows whose stamp is set, `or timedelta(0)`
AvgDuration(ems, ids, stamp) ==
    LET set == {i \in ids : ems[i][stamp] # NoTime}
    IN  IF set = {} THEN 0 ELSE SumDuration(ems, set, stamp) \div Cardinality(set)

Metrics(ems, u) ==
    LET qs == AssignedTo(ems, u)
        total == Cardinality(qs)
        resolved == Cardinality({i \in qs : ems[i].status = "resolved"})
    IN  [total_assigned |-> total,
         resolved |-> resolved,
         resolution_rate |-> ResolutionRate(resolved, total),
         avg_response_time |-> AvgDuration(ems, qs, "acknowledged_at"),
         avg_resolution_time |-> AvgDuration(ems, qs, "resolved_at")]

\* an upsert that adds the new counts to the stored ones
update_or_create_accumulates(snapshot, values, t) ==
    [rows |-> IF snapshot.rows = 0 THEN 1 ELSE snapshot.rows,
     metrics |-> [values EXCEPT
                    !.total_assigned = @ + snapshot.metrics.total_assigned,
                    !.resolved = @ + snapshot.metrics.resolved],
     last_updated |-> t]

\* an upsert that inserts a row on every call
update_or_create_appends(snapshot, values, t) ==
    [rows |-> snapshot.rows + 1, metrics |-> values, last_updated |-> t]

\* StaffPerformance.objects.update_or_create(staff=staff, defaults=values):
\* `rows` is the number of StaffPerformance rows of the staff (staff is a
\* OneToOneField); the row is created when there is none and overwritten
\* when there is one
update_or_create(snapshot, values, t) ==
    [rows |-> IF snapshot.rows = 0 THEN 1 ELSE snapshot.rows,
     metrics |-> values, last_updated |-> t]

\* recalc_staff_performance(staff, store=True): upsert of the staff's row
recalc_staff_performance(perf, ems, u, t) ==
    [perf EXCEPT ![u] = update_or_create(perf[u], Metrics(ems, u), t)]

\* a recalculation that stores whatever `store` says
recalc_always_stores(perf, ems, u, t, store) ==
    recalc_staff_performance(perf, ems, u, t)

\* recalc_staff_performance(staff, store): `if store:` writes, else the
\* dict is returned and nothing is written
recalc_store(perf, ems, u, t, store) ==
    IF store THEN recalc_staff_performance(perf, ems, u, t) ELSE perf

\* update_staff_performance_on_emergency_save
PerformanceOnSave(perf, ems, instance, t) ==
    IF instance.assigned_user # None
    THEN recalc_staff_performance(perf, ems, instance.assigned_user, t)
    ELSE perf

Response(op, actor, em, code) ==
    [op |-> op, actor |-> actor, em |-> em, code |-> code, at |-> now]

NoRow == NewEmergency(None, None, None, NoTime)
Idle == [pc |-> "idle", em |-> NoEm, copy |-> NoRow, code |-> 0]

\* the tables whose slugs are followed, and a save() that is not running
Kinds == {"user", "emergency"}
NoSlug == [base |-> None, n |-> 0]
SaveIdle == [pc |-> "idle", kind |-> None, slug |-> NoSlug, count |-> 0, code |-> 0]

\* the request workers that run recalc_staff_performance
Workers == {"w1", "w2"}
NoMetrics == Metrics(<<>>, None)
NothingReturned == [staff |-> None, store |-> FALSE, metrics |-> NoMetrics]
WorkerIdle == [pc |-> "idle", staff |-> None, metrics |-> NoMetrics, found |-> FALSE]

Init ==
    /\ now = 1
    /\ emergencies = <<>>
    /\ last_call_priority = [r \in Rooms |-> None]
    /\ is_available = [s \in StaffUsers |-> TRUE]
    /\ notifications = EmptyBag
    /\ performance =
         [u \in StaffUsers |->
            [rows |-> 1, metrics |-> Metrics(<<>>, u), last_updated |-> 1]]
    /\ resp = [op |-> "none", actor |-> None, em |-> NoEm, code |-> 0, at |-> 0]
    /\ inflight = [u \in Users |-> Idle]
    /\ backend \in {"raises", "skips"}
    /\ returned = NothingReturned
    /\ workers = [w \in Workers |-> WorkerIdle]
    /\ slugs = [k \in Kinds |-> EmptyBag]
    /\ saves = [w \in Workers |-> SaveIdle]

\* ------------------------------------------------------------------
\* Emergency.save() of a stored row: the columns written, then the
\* post_save receivers on the in-memory instance, then the rows the view
\* adds itself (`extra`)
\* ------------------------------------------------------------------
SaveEmergency(id, row, instance, first, extra) ==
    /\ emergencies' = [emergencies EXCEPT ![id] = row]
    /\ notifications' =
          EmergencyUpdatedNotifs(notifications, id, instance, first) (+) extra
    /\ performance' = PerformanceOnSave(performance, emergencies', instance, now)
    /\ now' = now + 1

NoWrite ==
    UNCHANGED <<now, emergencies, last_call_priority, is_available,
                notifications, performance, backend, slugs, saves, returned, workers>>

\* ------------------------------------------------------------------
\* PatientViewSet.call
\* ------------------------------------------------------------------
\* a lookup of the room that does not filter by the calling patient
ResolveRoomOfAnyPatient(p, room_id) ==
    IF room_id # None THEN room_id
    ELSE IF PatientRooms(p) = {} THEN "400"
         ELSE CHOOSE r \in PatientRooms(p) : TRUE

\* the room of the call: "404", "400" or a room
ResolveRoom(p, room_id) ==
    IF room_id # None
    THEN IF RoomPatient[room_id] = p THEN room_id ELSE "404"
    ELSE IF PatientRooms(p) = {} THEN "400"
         ELSE CHOOSE r \in PatientRooms(p) : TRUE

CallPriority(prio) == IF prio = None THEN "medium" ELSE prio

\* a call that does not write the room
RoomAfterCallStale(room, priority) == last_call_priority

\* room.save(update_fields=["last_call_priority"])
RoomAfterCall(room, priority) ==
    [last_call_priority EXCEPT ![room] = priority]

\* handle_room_notifications on that save builds one room_update row per
\* available staff with emergency=None, whatever field was written
RoomUpdateRows ==
    {Notif(u, RoleOf[u], NoEm, "room_update", "") : u \in AvailableStaff}

\* Notification.emergency is NOT NULL, so the database raises on these rows
\* (and the request with it) or skips them
RoomSaveRaises == RoomUpdateRows # {} /\ backend = "raises"

Call(p, room_id, prio) ==
    LET room == ResolveRoom(p, room_id)
        id == Len(emergencies) + 1
        priority == CallPriority(prio)
    IN  IF room \notin Rooms
        THEN /\ NoWrite
             /\ resp' = Response("call", None, NoEm, IF room = "404" THEN 404 ELSE 400)
             /\ UNCHANGED inflight
        ELSE /\ now <= MaxTime
             /\ Len(emergencies) < MaxEm
             /\ emergencies' =
                   Append(emergencies, NewEmergency(room, p, priority, now))
             /\ last_call_priority' = RoomAfterCall(room, priority)
             /\ \E first \in FirstOf(NewCallRows(id)) :
                  LET created == bulk_create(notifications, NewCallRows(id), first)
                  IN  IF RoomSaveRaises
                      THEN /\ notifications' = created
                           /\ resp' = Response("call", p, id, 500)
                      ELSE /\ notifications' =
                                 send_notification(created, id, None, None, "new_call")
                           /\ resp' = Response("call", p, id, 201)
             /\ now' = now + 1
             /\ UNCHANGED <<is_available, performance, inflight, backend, slugs, saves, returned, workers>>

\* ------------------------------------------------------------------
\* EmergencyViewSet (commented version): assign, accept, reach, resolve
\* ------------------------------------------------------------------
Assign(e, user_id) ==
    /\ e \in EmIds
    /\ UNCHANGED inflight
    /\ IF user_id = None
       THEN NoWrite /\ resp' = Response("assign", None, NoEm, 400)
       ELSE IF user_id \notin Users
       THEN NoWrite /\ resp' = Response("assign", None, NoEm, 404)
       ELSE LET row == [emergencies[e] EXCEPT !.assigned_user = user_id,
                                              !.status = "assigned"]
            IN  /\ now <= MaxTime
                /\ \E first \in FirstOf(ResolvedRows(e)) :
                     SaveEmergency(e, row, row, first,
                        SetToBag({Notif(user_id, None, e, "update", "gen")}))
                /\ resp' = Response("assign", None, e, 200)
                /\ UNCHANGED <<last_call_priority, is_available, backend, slugs, saves, returned, workers>>

\* an accept that does not look at assigned_user
AcceptForbiddenNever(copy, user) == FALSE

AcceptForbidden(copy, user) ==
    copy.assigned_user # None /\ copy.assigned_user # user

AcceptWrite(copy, user, t) ==
    [copy EXCEPT !.accepted_by = user, !.accepted_at = t, !.status = "accepted"]

\* accept after get_object() returned `copy`:
\* save(update_fields=["accepted_by", "accepted_at", "status"])
AcceptEffect(user, e, copy, code) ==
    IF AcceptForbidden(copy, user)
    THEN NoWrite /\ code = 403
    ELSE LET instance == AcceptWrite(copy, user, now)
             row == [emergencies[e] EXCEPT !.accepted_by = instance.accepted_by,
                                           !.accepted_at = instance.accepted_at,
                                           !.status = instance.status]
         IN  /\ now <= MaxTime
             /\ code = 200
             /\ \E first \in FirstOf(ResolvedRows(e)) :
                  SaveEmergency(e, row, instance, first,
                     SetToBag({Notif(None, None, e, "update", "gen")}))
             /\ UNCHANGED <<last_call_priority, is_available, backend, slugs, saves, returned, workers>>

Accept(user, e) ==
    /\ e \in EmIds
    /\ UNCHANGED inflight
    /\ \E code \in {200, 403} :
         /\ AcceptEffect(user, e, emergencies[e], code)
         /\ resp' = Response("accept", user, e, code)

Reach(e) ==
    /\ e \in EmIds
    /\ now <= MaxTime
    /\ LET row == [emergencies[e] EXCEPT !.reached_at = now,
                                         !.status = "in_progress"]
       IN  \E first \in FirstOf(ResolvedRows(e)) :
             SaveEmergency(e, row, row, first, EmptyBag)
    /\ resp' = Response("reach", None, e, 200)
    /\ UNCHANGED <<last_call_priority, is_available, inflight, backend, slugs, saves, returned, workers>>

ResolveCommented(e) ==
    /\ e \in EmIds
    /\ now <= MaxTime
    /\ LET row == [emergencies[e] EXCEPT !.resolved_at = now,
                                         !.status = "resolved"]
       IN  \E first \in FirstOf(ResolvedRows(e)) :
             SaveEmergency(e, row, row, first,
                SetToBag({Notif(None, None, e, "info", "gen")}))
    /\ resp' = Response("resolve_commented", None, e, 200)
    /\ UNCHANGED <<last_call_priority, is_available, inflight, backend, slugs, saves, returned, workers>>

\* ------------------------------------------------------------------
\* EmergencyViewSet.resolve (active version)
\* ------------------------------------------------------------------
ResolvedRow(em) == [em EXCEPT !.status = "resolved"]

Resolve(e) ==
    /\ e \in EmIds
    /\ now <= MaxTime
    /\ LET row == ResolvedRow(emergencies[e])
       IN  \E first \in FirstOf(ResolvedRows(e)) :
             SaveEmergency(e, row, row, first, EmptyBag)
    /\ resp' = Response("resolve", None, e, 200)
    /\ UNCHANGED <<last_call_priority, is_available, inflight, backend, slugs, saves, returned, workers>>

\* ------------------------------------------------------------------
\* PATCH of an Emergency through EmergencySerializer: status and
\* assigned_user are writable, the timestamps and accepted_by are not
\* ------------------------------------------------------------------
PatchValues(field) ==
    IF field = "status" THEN STATUS_CHOICES ELSE Users \cup {None}

GenericUpdate(e, field, value) ==
    /\ e \in EmIds
    /\ now <= MaxTime
    /\ value \in PatchValues(field)
    /\ <<field, value>> \in PatchInputs
    /\ LET row == [emergencies[e] EXCEPT ![field] = value]
       IN  \E first \in FirstOf(ResolvedRows(e)) :
             SaveEmergency(e, row, row, first, EmptyBag)
    /\ resp' = Response("update", None, e, 200)
    /\ UNCHANGED <<last_call_priority, is_available, inflight, backend, slugs, saves, returned, workers>>

\* ------------------------------------------------------------------
\* save of a Staff row: update_staff_performance_on_staff_save
\* ------------------------------------------------------------------
SetAvailability(s, b) ==
    /\ now <= MaxTime
    /\ b # is_available[s]
    /\ is_available' = [is_available EXCEPT ![s] = b]
    /\ performance' = recalc_staff_performance(performance, emergencies, s, now)
    /\ now' = now + 1
    /\ resp' = Response("staff_update", s, NoEm, 200)
    /\ UNCHANGED <<emergencies, last_call_priority, notifications, inflight, backend, slugs, saves, returned, workers>>

\* ------------------------------------------------------------------
\* accept as two steps of a request: get_object(), then check and save
\* ------------------------------------------------------------------
AcceptLoad(user, e) ==
    /\ e \in EmIds
    /\ inflight[user].pc = "idle"
    /\ inflight' = [inflight EXCEPT ![user] =
                      [pc |-> "loaded", em |-> e, copy |-> emergencies[e], code |-> 0]]
    /\ NoWrite
    /\ UNCHANGED resp

AcceptCommit(user) ==
    /\ inflight[user].pc = "loaded"
    /\ \E code \in {200, 403} :
         /\ AcceptEffect(user, inflight[user].em, inflight[user].copy, code)
         /\ inflight' = [inflight EXCEPT ![user].pc = "done", ![user].code = code]
         /\ resp' = Response("accept", user, inflight[user].em, code)

Next ==
    \/ \E p \in Patients, r \in RoomInputs, prio \in PriorityInputs : Call(p, r, prio)
    \/ \E e \in 1..MaxEm, uid \in UserIdInputs : Assign(e, uid)
    \/ \E u \in Users, e \in 1..MaxEm : Accept(u, e)
    \/ \E e \in 1..MaxEm : Reach(e)
    \/ \E e \in 1..MaxEm : ResolveCommented(e)
    \/ \E e \in 1..MaxEm : Resolve(e)
    \/ \E e \in 1..MaxEm, patch \in PatchInputs : GenericUpdate(e, patch[1], patch[2])
    \/ \E s \in StaffUsers, b \in BOOLEAN : SetAvailability(s, b)

Spec == Init /\ [][Next]_vars

\* the requests of two staff racing on accept
NextAccept ==
    \/ \E p \in Patients, r \in RoomInputs, prio \in PriorityInputs : Call(p, r, prio)
    \/ \E e \in 1..MaxEm, uid \in UserIdInputs : Assign(e, uid)
    \/ \E u \in Users, e \in 1..MaxEm : AcceptLoad(u, e)
    \/ \E u \in Users : AcceptCommit(u)

SpecAccept == Init /\ [][NextAccept]_vars

\* ------------------------------------------------------------------
\* The performance recalculator on its own: the handlers that call
\* recalc_staff_performance, over Emergency histories the transitions
\* above can leave behind
\* ------------------------------------------------------------------
\* a stored Emergency created at time 1: unassigned or assigned, not
\* resolved, resolved by the active resolve (resolved_at NULL) or by the
\* commented one (resolved_at stamped)
HistoryRow(u, resolved, at) ==
    [NewEmergency("r1", "p1", "medium", 1) EXCEPT
        !.assigned_user = u,
        !.status = IF resolved THEN "resolved"
                   ELSE IF u = None THEN "pending" ELSE "assigned",
        !.resolved_at = at]

HistoryRows ==
    {HistoryRow(u, FALSE, NoTime) : u \in Users \cup {None}}
      \cup {HistoryRow(u, TRUE, at) : u \in Users \cup {None}, at \in {NoTime, 1, 2}}

Histories == UNION {[1..n -> HistoryRows] : n \in 0..MaxEm}

\* a staff's StaffPerformance row: absent, or present with the defaults
SnapshotInputs ==
    {[rows |-> n, metrics |-> NoMetrics, last_updated |-> 1] : n \in {0, 1}}

InitRecalc ==
    /\ now = 2
    /\ emergencies \in Histories
    /\ last_call_priority = [r \in Rooms |-> None]
    /\ is_available = [s \in StaffUsers |-> TRUE]
    /\ notifications = EmptyBag
    /\ performance \in [StaffUsers -> SnapshotInputs]
    /\ resp = [op |-> "none", actor |-> None, em |-> NoEm, code |-> 0, at |-> 0]
    /\ inflight = [u \in Users |-> Idle]
    /\ backend = "raises"
    /\ returned = NothingReturned
    /\ workers = [w \in Workers |-> WorkerIdle]
    /\ slugs = [k \in Kinds |-> EmptyBag]
    /\ saves = [w \in Workers |-> SaveIdle]

\* self.queryset of StaffViewSet, order_by("user__full_name")
StaffQueryset == <<"u1", "u2">>

\* [recalc_staff_performance(staff, store=True) for staff in self.queryset]
RECURSIVE RecalcAll(_, _, _, _)
RecalcAll(perf, ems, staff, t) ==
    IF staff = <<>> THEN perf
    ELSE RecalcAll(recalc_staff_performance(perf, ems, Head(staff), t),
                   ems, Tail(staff), t)

RecalcFrame ==
    UNCHANGED <<emergencies, last_call_priority, is_available, notifications,
                inflight, backend, slugs, saves, workers>>

\* StaffViewSet.performance
Performance(s) ==
    /\ now <= MaxTime
    /\ performance' = recalc_store(performance, emergencies, s, now, TRUE)
    /\ returned' = [staff |-> s, store |-> TRUE, metrics |-> Metrics(emergencies, s)]
    /\ resp' = Response("performance", s, NoEm, 200)
    /\ now' = now + 1
    /\ RecalcFrame

\* StaffViewSet.performance_summary
PerformanceSummary ==
    /\ now <= MaxTime
    /\ performance' = RecalcAll(performance, emergencies, StaffQueryset, now)
    /\ returned' = [staff |-> StaffQueryset[Len(StaffQueryset)], store |-> TRUE,
                    metrics |-> Metrics(emergencies, StaffQueryset[Len(StaffQueryset)])]
    /\ resp' = Response("performance_summary", None, NoEm, 200)
    /\ now' = now + 1
    /\ RecalcFrame

\* StaffViewSet.leaderboard: the rows are recalculated and stored, then the
\* sort reads p.total_calls, which StaffPerformance does not have
Leaderboard ==
    /\ now <= MaxTime
    /\ performance' = RecalcAll(performance, emergencies, StaffQueryset, now)
    /\ returned' = [staff |-> StaffQueryset[Len(StaffQueryset)], store |-> TRUE,
                    metrics |-> Metrics(emergencies, StaffQueryset[Len(StaffQueryset)])]
    /\ resp' = Response("leaderboard", None, NoEm, 500)
    /\ now' = now + 1
    /\ RecalcFrame

\* recalc_staff_performance(staff), store=False
RecalcTransient(s) ==
    /\ performance' = recalc_store(performance, emergencies, s, now, FALSE)
    /\ returned' = [staff |-> s, store |-> FALSE, metrics |-> Metrics(emergencies, s)]
    /\ UNCHANGED <<now, resp>>
    /\ RecalcFrame

NextRecalc ==
    \/ \E s \in StaffUsers : Performance(s)
    \/ PerformanceSummary
    \/ Leaderboard
    \/ \E s \in StaffUsers : RecalcTransient(s)

SpecRecalc == InitRecalc /\ [][NextRecalc]_vars

\* ------------------------------------------------------------------
\* Two requests of StaffViewSet.performance for the same staff, each a
\* recalc_staff_performance(staff, store=True) in three steps: the queries,
\* the get of update_or_create, its insert or update
\* ------------------------------------------------------------------
RaceFrame ==
    UNCHANGED <<emergencies, last_call_priority, is_available, notifications,
                inflight, backend, slugs, saves, resp>>

\* the queries of utils.py:54-82
RecalcQuery(w, s) ==
    /\ workers[w].pc = "idle"
    /\ \A v \in Workers : workers[v].pc # "idle" => workers[v].staff = s
    /\ workers' = [workers EXCEPT ![w] =
                     [pc |-> "computed", staff |-> s,
                      metrics |-> Metrics(emergencies, s), found |-> FALSE]]
    /\ UNCHANGED <<now, performance, returned>>
    /\ RaceFrame

\* update_or_create: get(staff=staff)
UpsertGet(w) ==
    /\ workers[w].pc = "computed"
    /\ workers' = [workers EXCEPT ![w].pc = "got",
                                  ![w].found = performance[workers[w].staff].rows > 0]
    /\ UNCHANGED <<now, performance, returned>>
    /\ RaceFrame

\* an insert that no unique key stops
upsert_write_not_unique(snapshot, found, values, t) ==
    [rows |-> IF found THEN snapshot.rows ELSE snapshot.rows + 1,
     metrics |-> values, last_updated |-> t]

\* update_or_create after its get: the row that was found is updated; when
\* none was found a row is inserted, and when another request has inserted
\* one in between, the insert fails on the unique staff (OneToOneField),
\* get_or_create reads the row again and it is updated
upsert_write(snapshot, found, values, t) ==
    [rows |-> IF found \/ snapshot.rows > 0 THEN snapshot.rows ELSE 1,
     metrics |-> values, last_updated |-> t]

UpsertWrite(w) ==
    /\ workers[w].pc = "got"
    /\ now <= MaxTime
    /\ performance' =
          [performance EXCEPT ![workers[w].staff] =
              upsert_write(@, workers[w].found, workers[w].metrics, now)]
    /\ workers' = [workers EXCEPT ![w].pc = "done"]
    /\ returned' = [staff |-> workers[w].staff, store |-> TRUE,
                    metrics |-> workers[w].metrics]
    /\ now' = now + 1
    /\ RaceFrame

NextRace ==
    \/ \E w \in Workers, s \in StaffUsers : RecalcQuery(w, s)
    \/ \E w \in Workers : UpsertGet(w)
    \/ \E w \in Workers : UpsertWrite(w)

SpecRace == InitRecalc /\ [][NextRace]_vars

\* ------------------------------------------------------------------
\* The remaining write paths: the change form of an Emergency (the only
\* place that writes escalated_to), the NotificationViewSet, and the
\* create and update endpoints of the Emergency and Room serializers
\* ------------------------------------------------------------------
Roles == {RoleOf[u] : u \in Users}
RoleInputs == Roles \cup {None}
\* PATCH bodies of a Notification: is_read, or read_at (null)
NotificationPatchValues(field) ==
    IF field = "is_read" THEN BOOLEAN ELSE {NoTime}
RoomPatchInputs == {"low", None}

\* the change form runs in one transaction: when the receiver raises, the
\* Emergency row is rolled back with everything else
Escalate(e, R) ==
    /\ e \in EmIds
    /\ UNCHANGED inflight
    /\ LET row == [emergencies[e] EXCEPT !.status = "escalated",
                                         !.escalated_to = R]
       IN  IF EscalationRaises(row)
           THEN NoWrite /\ resp' = Response("escalate", None, e, 500)
           ELSE /\ now <= MaxTime
                /\ \E first \in FirstOf(ResolvedRows(e)) :
                     SaveEmergency(e, row, row, first, EmptyBag)
                /\ resp' = Response("escalate", None, e, 200)
                /\ UNCHANGED <<last_call_priority, is_available, backend, slugs, saves,
                               returned, workers>>

\* the row x of the table replaced by y
ReplaceRow(n, x, y) == (n (-) SetToBag({x})) (+) SetToBag({y})

\* get_object() looks the row up by its slug
Addressable(n) == {x \in BagToSet(n) : x.slug # ""}

NotificationFrame ==
    UNCHANGED <<emergencies, last_call_priority, is_available, performance,
                inflight, backend, slugs, saves, returned, workers>>

mark_read(x) ==
    /\ x \in Addressable(notifications)
    /\ IF ~x.is_read
       THEN /\ now <= MaxTime
            /\ notifications' = ReplaceRow(notifications, x,
                                   [x EXCEPT !.is_read = TRUE, !.read_at = now])
            /\ now' = now + 1
       ELSE UNCHANGED <<now, notifications>>
    /\ resp' = Response("mark_read", None, x.emergency, 200)
    /\ NotificationFrame

mark_unread(x) ==
    /\ x \in Addressable(notifications)
    /\ IF x.is_read
       THEN /\ now <= MaxTime
            /\ notifications' = ReplaceRow(notifications, x,
                                   [x EXCEPT !.is_read = FALSE, !.read_at = NoTime])
            /\ now' = now + 1
       ELSE UNCHANGED <<now, notifications>>
    /\ resp' = Response("mark_unread", None, x.emergency, 200)
    /\ NotificationFrame

\* PATCH of a Notification through NotificationSerializer: is_read and
\* read_at are both writable, each on its own
NotificationUpdate(x, field, value) ==
    /\ x \in Addressable(notifications)
    /\ value \in NotificationPatchValues(field)
    /\ now <= MaxTime
    /\ notifications' = ReplaceRow(notifications, x, [x EXCEPT ![field] = value])
    /\ now' = now + 1
    /\ resp' = Response("notification_update", None, x.emergency, 200)
    /\ NotificationFrame

\* Emergency.priority when the body names none
DefaultPriority(prio) == IF prio = None THEN "medium" ELSE prio

\* POST of an Emergency through EmergencySerializer.create: the row is
\* saved and the receivers run; nothing writes the Room
EmergencyCreate(room, patient, prio) ==
    LET id == Len(emergencies) + 1
    IN  /\ now <= MaxTime
        /\ Len(emergencies) < MaxEm
        /\ emergencies' = Append(emergencies,
                             NewEmergency(room, patient, DefaultPriority(prio), now))
        /\ \E first \in FirstOf(NewCallRows(id)) :
             notifications' = bulk_create(notifications, NewCallRows(id), first)
        /\ now' = now + 1
        /\ resp' = Response("create", None, id, 201)
        /\ UNCHANGED <<last_call_priority, is_available, performance, inflight,
                       backend, slugs, saves, returned, workers>>

\* PATCH of a Room through RoomSerializer: last_call_priority is writable;
\* the row is saved before handle_room_notifications runs
RoomUpdate(room, value) ==
    /\ now <= MaxTime
    /\ last_call_priority' = [last_call_priority EXCEPT ![room] = value]
    /\ now' = now + 1
    /\ resp' = Response("room_update", None, NoEm,
                        IF RoomSaveRaises THEN 500 ELSE 200)
    /\ UNCHANGED <<emergencies, is_available, notifications, performance,
                   inflight, backend, slugs, saves, returned, workers>>

NextCrud ==
    \/ \E p \in Patients, r \in RoomInputs, prio \in PriorityInputs : Call(p, r, prio)
    \/ \E e \in 1..MaxEm, R \in RoleInputs : Escalate(e, R)
    \/ \E x \in BagToSet(notifications) : mark_read(x)
    \/ \E x \in BagToSet(notifications) : mark_unread(x)
    \/ \E x \in BagToSet(notifications), v \in BOOLEAN :
          NotificationUpdate(x, "is_read", v)
    \/ \E x \in BagToSet(notifications) : NotificationUpdate(x, "read_at", NoTime)
    \/ \E r \in Rooms, prio \in PriorityInputs :
          EmergencyCreate(r, RoomPatient[r], prio)
    \/ \E r \in Rooms, v \in RoomPatchInputs : RoomUpdate(r, v)

SpecCrud == Init /\ [][NextCrud]_vars

\* ------------------------------------------------------------------
\* Slugs: User.save looks for a free slug and then inserts; Emergency.save
\* appends six random hex digits and inserts.  The slug column is unique,
\* so an INSERT of a slug that is stored raises IntegrityError.
\* ------------------------------------------------------------------
\* slugify(full_name) of the users saved, and the random suffixes drawn
Bases == {"ann", "bob"}
Hex == {1, 2}

\* base for n = 0, "<base>-<n>" otherwise
Slug(base, n) == [base |-> base, n |-> n]

InFlight == {w \in Workers : saves[w].pc # "idle"}
RowCount ==
    BagCardinality(slugs["user"]) + BagCardinality(slugs["emergency"])
      + Cardinality(InFlight)

InitSlug ==
    /\ now = 1
    /\ emergencies = <<>>
    /\ last_call_priority = [r \in Rooms |-> None]
    /\ is_available = [s \in StaffUsers |-> TRUE]
    /\ notifications = EmptyBag
    /\ performance =
         [u \in StaffUsers |->
            [rows |-> 1, metrics |-> Metrics(<<>>, u), last_updated |-> 1]]
    /\ resp = [op |-> "none", actor |-> None, em |-> NoEm, code |-> 0, at |-> 0]
    /\ inflight = [u \in Users |-> Idle]
    /\ backend = "raises"
    /\ returned = NothingReturned
    /\ workers = [w \in Workers |-> WorkerIdle]
    /\ slugs = [k \in Kinds |-> EmptyBag]
    /\ saves = [w \in Workers |-> SaveIdle]

SlugFrame ==
    UNCHANGED <<now, emergencies, last_call_priority, is_available,
                notifications, performance, resp, inflight, backend,
                returned, workers>>

\* User.save of a new user: slug = base_slug, count = 1
UserSaveBegin(w, base) ==
    /\ saves[w].pc = "idle"
    /\ RowCount < MaxRows
    /\ saves' = [saves EXCEPT ![w] =
                   [pc |-> "check", kind |-> "user", slug |-> Slug(base, 0),
                    count |-> 1, code |-> 0]]
    /\ UNCHANGED slugs
    /\ SlugFrame

\* one evaluation of `while User.objects.filter(slug=slug)...exists()`
UserSlugCheck(w) ==
    /\ saves[w].pc = "check"
    /\ LET s == saves[w]
       IN  saves' = [saves EXCEPT ![w] =
                       IF BagIn(s.slug, slugs["user"])
                       THEN [s EXCEPT !.slug = Slug(s.slug.base, s.count),
                                      !.count = s.count + 1]
                       ELSE [s EXCEPT !.pc = "insert"]]
    /\ UNCHANGED slugs
    /\ SlugFrame

\* the INSERT of a row under the unique constraint of the slug column
insert(table, slug) ==
    IF BagIn(slug, table) THEN table ELSE table (+) SetToBag({slug})

InsertCode(table, slug) == IF BagIn(slug, table) THEN 500 ELSE 201

\* super().save(): the INSERT
UserInsert(w) ==
    /\ saves[w].pc = "insert"
    /\ slugs' = [slugs EXCEPT !["user"] = insert(@, saves[w].slug)]
    /\ saves' = [saves EXCEPT ![w].pc = "idle",
                              ![w].code = InsertCode(slugs["user"], saves[w].slug)]
    /\ SlugFrame

\* Emergency.save of a new row: slug from the room number and uuid4
EmergencySave(w, room, h) ==
    /\ saves[w].pc = "idle"
    /\ RowCount < MaxRows
    /\ slugs' = [slugs EXCEPT !["emergency"] = insert(@, Slug(room, h))]
    /\ saves' = [saves EXCEPT ![w] =
                   [pc |-> "idle", kind |-> "emergency", slug |-> Slug(room, h),
                    count |-> 0,
                    code |-> InsertCode(slugs["emergency"], Slug(room, h))]]
    /\ SlugFrame

\* a later save of a stored row: `if not self.slug` is false
ReSave(w, kind, slug) ==
    /\ saves[w].pc = "idle"
    /\ BagIn(slug, slugs[kind])
    /\ saves' = [saves EXCEPT ![w] =
                   [pc |-> "idle", kind |-> kind, slug |-> slug,
                    count |-> 0, code |-> 200]]
    /\ UNCHANGED slugs
    /\ SlugFrame

NextSlug ==
    \/ \E w \in Workers, base \in Bases : UserSaveBegin(w, base)
    \/ \E w \in Workers : UserSlugCheck(w)
    \/ \E w \in Workers : UserInsert(w)
    \/ \E w \in Workers, room \in Rooms, h \in Hex : EmergencySave(w, room, h)
    \/ \E w \in Workers, kind \in Kinds, base \in Bases \cup Rooms, n \in 0..MaxRows :
          ReSave(w, kind, Slug(base, n))

SpecSlug == InitSlug /\ [][NextSlug]_vars

\* ==================================================================
\* Properties
\* ==================================================================
Stamps == {"acknowledged_at", "accepted_at", "reached_at", "resolved_at"}
IsError(code) == code >= 400

\* the rows of the notification table that reference emergency e, with
\* their multiplicities
RowsOf(e) == {x \in BagToSet(notifications) : x.emergency = e}
RECURSIVE CountRows(_)
CountRows(rows) ==
    IF rows = {} THEN 0
    ELSE LET x == CHOOSE y \in rows : TRUE
         IN  CopiesIn(x, notifications) + CountRows(rows \ {x})

\* C1: a request on an Emergency whose status is resolved or cancelled
\* is answered with an error and leaves every field of the Emergency as
\* it was.
C1_TerminalIsFinal ==
    [][\A e \in EmIds :
          emergencies[e].status \in Terminal =>
            /\ emergencies'[e] = emergencies[e]
            /\ (resp' # resp /\ resp'.em = e) => IsError(resp'.code)]_vars

\* C2: when two different staff have both finished an accept of the same
\* Emergency, which had no assigned_user when each of them read it, exactly
\* one of them was answered 200, the other got an error, and accepted_by
\* is the one answered 200.
C2_OneAcceptWins ==
    \A u \in Users, v \in Users :
      ( /\ u # v
        /\ inflight[u].pc = "done" /\ inflight[v].pc = "done"
        /\ inflight[u].em = inflight[v].em
        /\ inflight[u].copy.assigned_user = None
        /\ inflight[v].copy.assigned_user = None )
      => \E w \in {u, v} :
           /\ inflight[w].code = 200
           /\ \A l \in {u, v} \ {w} : IsError(inflight[l].code)
           /\ emergencies[inflight[u].em].accepted_by = w
           /\ emergencies[inflight[u].em].status = "accepted"

\* C3: right after a call has created an Emergency, that Emergency is
\* pending and the last_call_priority of its room is its priority.
C3_CallSetsPendingAndRoomPriority ==
    (resp.op = "call" /\ resp.em # NoEm) =>
      LET em == emergencies[resp.em]
      IN  /\ em.status = "pending"
          /\ em.created_at = resp.at
          /\ last_call_priority[em.room] = em.priority

C3_Witness ==
    /\ resp.op = "call" /\ resp.em = 2
    /\ emergencies[1].room = emergencies[2].room
    /\ emergencies[1].priority = "medium"
    /\ emergencies[2].priority = "high"
    /\ last_call_priority[emergencies[2].room] = "high"

\* C4: right after a call has created an Emergency in a store that held
\* no notification, the notifications that reference the Emergency are
\* exactly one new_call row for the user of each available staff.
C4_OneNewCallPerAvailableStaff ==
    ( /\ resp.op = "call" /\ resp.em # NoEm
      /\ \A x \in BagToSet(notifications) : x.emergency = resp.em )
    => /\ CountRows(RowsOf(resp.em)) = Cardinality(AvailableStaff)
       /\ \A x \in RowsOf(resp.em) :
             x.type = "new_call" /\ x.user \in AvailableStaff
       /\ \A s \in AvailableStaff :
             \E x \in RowsOf(resp.em) : x.user = s

\* C5: an accept by u of an Emergency assigned to somebody else is answered
\* 403 and changes none of accepted_by, accepted_at and status; any other
\* accept is answered 200 and sets accepted_by = u, accepted_at = the time
\* of the request and status = accepted.
C5_AcceptConflict ==
    [][\A u \in Users, e \in EmIds :
          (resp' # resp /\ resp'.op = "accept" /\ resp'.actor = u /\ resp'.em = e) =>
            IF emergencies[e].assigned_user \notin {None, u}
            THEN /\ resp'.code = 403
                 /\ emergencies'[e].accepted_by = emergencies[e].accepted_by
                 /\ emergencies'[e].accepted_at = emergencies[e].accepted_at
                 /\ emergencies'[e].status = emergencies[e].status
            ELSE /\ resp'.code = 200
                 /\ emergencies'[e].accepted_by = u
                 /\ emergencies'[e].accepted_at = now
                 /\ emergencies'[e].status = "accepted"]_vars

C5_Witness ==
    /\ resp.op = "accept" /\ resp.code = 403
    /\ emergencies[resp.em].assigned_user \notin {None, resp.actor}
    /\ emergencies[resp.em].accepted_by = None
    /\ emergencies[resp.em].status = "assigned"

\* C6: right after a resolve was answered 200, the Emergency is resolved
\* and its resolved_at is the time of the request.
C6_ResolveStampsResolvedAt ==
    (resp.op \in {"resolve", "resolve_commented"} /\ resp.code = 200) =>
      /\ emergencies[resp.em].status = "resolved"
      /\ emergencies[resp.em].resolved_at = resp.at

\* C7: for every Emergency, resolved_at set implies status = resolved,
\* accepted_at set implies accepted_by set, escalated_to set implies
\* status = escalated.
C7_FieldInvariant ==
    \A e \in EmIds :
      /\ emergencies[e].resolved_at # NoTime => emergencies[e].status = "resolved"
      /\ emergencies[e].accepted_at # NoTime => emergencies[e].accepted_by # None
      /\ emergencies[e].escalated_to # None => emergencies[e].status = "escalated"

\* C8: every change of an Emergency's status follows the lifecycle graph:
\* pending goes only to notified, assigned, escalated or cancelled;
\* accepted is entered only from notified, assigned or escalated;
\* in_progress only from accepted; resolved only from in_progress.
C8_Lifecycle ==
    [][\A e \in EmIds :
          LET old == emergencies[e].status
              new == emergencies'[e].status
          IN  old # new =>
                /\ old = "pending" =>
                     new \in {"notified", "assigned", "escalated", "cancelled"}
                /\ new = "accepted" => old \in {"notified", "assigned", "escalated"}
                /\ new = "in_progress" => old = "accepted"
                /\ new = "resolved" => old = "in_progress"]_vars

\* C9: a timestamp of an Emergency that is set is never changed again, and
\* every timestamp that is set is at or after created_at.
C9_StampsWrittenOnce ==
    [][\A e \in EmIds, f \in Stamps :
          /\ emergencies[e][f] # NoTime => emergencies'[e][f] = emergencies[e][f]
          /\ emergencies'[e][f] # NoTime =>
                emergencies'[e][f] >= emergencies'[e].created_at]_vars

\* C10: after a step that changes an Emergency's assigned_user from one
\* staff to another, the stored performance rows of both staff hold the
\* metrics computed from the Emergency rows as they now are.
C10_BothStaffRecalculated ==
    [][\A e \in EmIds :
          LET a == emergencies[e].assigned_user
              b == emergencies'[e].assigned_user
          IN  (a # None /\ b # None /\ a # b) =>
                /\ performance'[a].metrics = Metrics(emergencies', a)
                /\ performance'[b].metrics = Metrics(emergencies', b)]_vars

\* C11: right after a resolve of an Emergency assigned to staff S was
\* answered 200, when every Emergency assigned to S is resolved, the stored
\* performance row of S has total_assigned >= 1, resolved >= 1,
\* resolution_rate = 100.00 and avg_resolution_time > 0.
C11_SnapshotAfterResolve ==
    \A e \in EmIds :
      LET s == emergencies[e].assigned_user
      IN  ( /\ resp.op \in {"resolve", "resolve_commented"}
            /\ resp.code = 200 /\ resp.em = e
            /\ s # None
            /\ \A i \in AssignedTo(emergencies, s) :
                  emergencies[i].status = "resolved" )
          => /\ performance[s].rows = 1
             /\ performance[s].metrics.total_assigned >= 1
             /\ performance[s].metrics.resolved >= 1
             /\ performance[s].metrics.resolution_rate = 10000
             /\ performance[s].metrics.avg_resolution_time > 0

\* the metrics a recalculation has produced: the value the last call
\* returned and the values of the stored rows
ComputedMetrics ==
    {returned.metrics : x \in {returned.staff} \ {None}}
      \cup {performance[u].metrics : u \in {v \in StaffUsers : performance[v].rows > 0}}

\* C12 (as stated): every computed resolution_rate is between 0 and 100
\* and is 0.0 exactly when total_assigned = 0.
C12_RateZeroIffNothingAssigned ==
    \A m \in ComputedMetrics :
      /\ m.resolution_rate >= 0 /\ m.resolution_rate <= 10000
      /\ m.resolution_rate = 0 <=> m.total_assigned = 0

\* C12 (amended): every computed resolution_rate is between 0 and 100, and
\* it is 0.0 whenever total_assigned = 0 and whenever resolved = 0.
C12_RateInRange ==
    \A m \in ComputedMetrics :
      /\ m.resolution_rate >= 0 /\ m.resolution_rate <= 10000
      /\ m.total_assigned = 0 => m.resolution_rate = 0
      /\ m.resolved = 0 => m.resolution_rate = 0

C12_Witness ==
    /\ returned.staff = "u2"
    /\ returned.metrics.total_assigned = 0 /\ returned.metrics.resolution_rate = 0
    /\ performance["u1"].rows = 1
    /\ performance["u1"].metrics.total_assigned = 2
    /\ performance["u1"].metrics.resolved = 1
    /\ performance["u1"].metrics.resolution_rate = 5000

\* C13: what a recalculation for staff s returns: total_assigned is the
\* number of Emergencies whose assigned_user is s, resolved the number of
\* those that are resolved, resolution_rate is resolved/total_assigned*100
\* rounded to two places (0.0 when nothing is assigned), and an average is
\* zero when no counted Emergency has its timestamp set.
C13_ReturnedMetrics ==
    returned.staff # None =>
      LET m == returned.metrics
          mine == {e \in EmIds : emergencies[e].assigned_user = returned.staff}
          done == {e \in mine : emergencies[e].status = "resolved"}
          miss == m.resolution_rate * m.total_assigned - 10000 * m.resolved
      IN  /\ m.total_assigned = Cardinality(mine)
          /\ m.resolved = Cardinality(done)
          /\ m.resolved <= m.total_assigned
          /\ m.total_assigned = 0 => m.resolution_rate = 0
          /\ 2 * miss <= m.total_assigned /\ 2 * (0 - miss) <= m.total_assigned
          /\ (\A e \in mine : emergencies[e].acknowledged_at = NoTime)
                => m.avg_response_time = 0
          /\ (\A e \in mine : emergencies[e].resolved_at = NoTime)
                => m.avg_resolution_time = 0

C13_Witness ==
    /\ returned.staff = "u1"
    /\ Len(emergencies) = 2
    /\ returned.metrics.total_assigned = 2
    /\ returned.metrics.resolved = 1
    /\ returned.metrics.resolution_rate = 5000
    /\ returned.metrics.avg_resolution_time = 1

\* C14: a recalculation for staff s that follows a recalculation for s,
\* the Emergency rows being the same, returns the same metrics; when both
\* stored, the stored row holds the same metrics after the second as after
\* the first.
C14_RecalcIdempotent ==
    [][\A s \in StaffUsers :
          ( /\ returned.staff = s /\ returned'.staff = s
            /\ emergencies' = emergencies )
          => /\ returned'.metrics = returned.metrics
             /\ (returned.store /\ returned'.store) =>
                   /\ performance'[s].metrics = performance[s].metrics
                   /\ performance'[s].metrics = returned'.metrics
                   /\ performance'[s].rows = performance[s].rows]_vars

C14_Witness ==
    /\ returned.staff = "u1" /\ returned.store
    /\ now = 4
    /\ performance["u1"].last_updated = 3
    /\ performance["u2"].last_updated = 1
    /\ performance["u1"].metrics.total_assigned = 2
    /\ performance["u1"].metrics.resolved = 1

\* C15: a recalculation with store=False returns the metrics counted from
\* the Emergency rows and writes nothing: the StaffPerformance, Emergency,
\* Staff, Room and Notification rows are as before.
C15_TransientWritesNothing ==
    [][(returned' # returned /\ returned'.staff # None /\ ~returned'.store) =>
          /\ performance' = performance
          /\ emergencies' = emergencies
          /\ is_available' = is_available
          /\ last_call_priority' = last_call_priority
          /\ notifications' = notifications
          /\ returned'.metrics.total_assigned =
                Cardinality({e \in EmIds :
                                emergencies[e].assigned_user = returned'.staff})
          /\ returned'.metrics.resolved =
                Cardinality({e \in EmIds :
                                /\ emergencies[e].assigned_user = returned'.staff
                                /\ emergencies[e].status = "resolved"})]_vars

C15_Witness ==
    /\ returned.staff = "u1" /\ ~returned.store
    /\ returned.metrics.total_assigned = 2
    /\ returned.metrics.resolved = 2
    /\ performance["u1"].rows = 0
    /\ now = 2

\* C16: no staff ever has more than one StaffPerformance row, and a staff
\* for whom a recalculation has stored (last_updated is later than the
\* initial stamp) has exactly one: the first storing call creates the row,
\* every later one overwrites it.
C16_OneSnapshotPerStaff ==
    \A s \in StaffUsers :
      /\ performance[s].rows <= 1
      /\ performance[s].last_updated > 1 =>
            /\ performance[s].rows = 1
            /\ performance[s].metrics = Metrics(emergencies, s)

C16_Witness ==
    /\ now = 4
    /\ performance["u1"].rows = 1 /\ performance["u1"].last_updated = 3
    /\ performance["u2"].rows = 0 /\ performance["u2"].last_updated = 1
    /\ performance["u1"].metrics.total_assigned = 1

\* C17: when two recalculations with store=True for the same staff have
\* both finished, whatever the order of their steps, the staff has exactly
\* one StaffPerformance row, it holds the metrics one recalculation alone
\* computes from the Emergency rows, and both calls returned those metrics.
C17_RacingRecalcsAgree ==
    \A w \in Workers, v \in Workers :
      ( /\ w # v
        /\ workers[w].pc = "done" /\ workers[v].pc = "done"
        /\ workers[w].staff = workers[v].staff )
      => LET s == workers[w].staff
         IN  /\ performance[s].rows = 1
             /\ performance[s].metrics = Metrics(emergencies, s)
             /\ workers[w].metrics = performance[s].metrics
             /\ workers[v].metrics = performance[s].metrics

\* both requests found no row and both went on to insert
C17_Witness ==
    /\ \A w \in Workers :
          /\ workers[w].pc = "done" /\ workers[w].staff = "u1"
          /\ ~workers[w].found
    /\ performance["u1"].rows = 1
    /\ performance["u1"].metrics.total_assigned = 2
    /\ performance["u1"].metrics.resolution_rate = 5000

\* C18: a call whose notifications could not be stored (the room_update
\* rows of the Room save, when the database rejects them) is still answered
\* 201, and the created Emergency is pending and the room holds its
\* priority.
C18_NotificationFailureSwallowed ==
    ( /\ resp.op = "call" /\ resp.em # NoEm
      /\ AvailableStaff # {} /\ backend = "raises" )
    => /\ resp.code = 201
       /\ emergencies[resp.em].status = "pending"
       /\ last_call_priority[emergencies[resp.em].room] =
             emergencies[resp.em].priority

\* C19: a request that failed on the server (500) has written nothing: the
\* Emergency rows, the rooms and the StaffPerformance rows are as they were
\* before the request.
C19_FailureWritesNothing ==
    [][(resp' # resp /\ resp'.code = 500) =>
          /\ emergencies' = emergencies
          /\ last_call_priority' = last_call_priority
          /\ performance' = performance]_vars

\* C20: the new_call batch of a call stores, for every available staff, the
\* row of that staff unless a new_call row for the same staff and Emergency
\* was stored before; a conflict on one row costs no other row.
C20_BatchKeepsOtherRows ==
    [][(resp' # resp /\ resp'.op = "call" /\ resp'.em # NoEm) =>
          \A s \in AvailableStaff :
            (\A x \in BagToSet(notifications) :
                ~(x.user = s /\ x.emergency = resp'.em /\ x.type = "new_call"))
            => \E x \in BagToSet(notifications') :
                  x.user = s /\ x.emergency = resp'.em /\ x.type = "new_call"]_vars

\* the number of stored notifications of type ty for user u that reference
\* Emergency e
Copies(n, u, e, ty) ==
    LET match == {x \in BagToSet(n) : x.user = u /\ x.emergency = e /\ x.type = ty}
    IN  BagCardinality([x \in match |-> CopiesIn(x, n)])

\* C21: a resolve answered 200 adds one info notification for the assigned
\* user (when there is one) and one update notification for every admin,
\* all referencing the Emergency, and stores the recalculated performance
\* of the assigned staff.
C21_ResolveNotifies ==
    [][\A e \in EmIds :
          ( /\ resp' # resp /\ resp'.em = e /\ resp'.code = 200
            /\ resp'.op \in {"resolve", "resolve_commented"} )
          => LET a == emergencies'[e].assigned_user
             IN  /\ a # None =>
                      /\ Copies(notifications', a, e, "info")
                            = Copies(notifications, a, e, "info") + 1
                      /\ performance'[a].metrics = Metrics(emergencies', a)
                      /\ performance'[a].last_updated = now
                 /\ \A u \in Admins :
                      Copies(notifications', u, e, "update")
                        = Copies(notifications, u, e, "update") + 1]_vars

C25_EveryNotificationHasTarget ==
    \A x \in BagToSet(notifications) : x.user # None \/ x.role # None

\* C27: a call whose room cannot be resolved changes nothing: a room_id that
\* is not a room of the patient is answered 404, no room_id for a patient
\* without a room is answered 400, and in both cases no Emergency, no
\* last_call_priority and no notification is written.
C27_UnresolvedRoomChangesNothing ==
    [][\A p \in Patients : \A r \in RoomInputs : \A prio \in PriorityInputs :
          Call(p, r, prio) =>
             /\ (r # None /\ RoomPatient[r] # p) =>
                   /\ resp'.code = 404
                   /\ UNCHANGED <<emergencies, last_call_priority, notifications>>
             /\ (r = None /\ PatientRooms(p) = {}) =>
                   /\ resp'.code = 400
                   /\ UNCHANGED <<emergencies, last_call_priority, notifications>>]_vars

C27_Witness ==
    /\ resp.op = "call" /\ resp.code = 404
    /\ Len(emergencies) >= 1
    /\ BagToSet(notifications) # {}

C30_AssignmentNotifiedOnce ==
    [][\A e \in EmIds : \A u \in Users :
          ( /\ emergencies[e].assigned_user = u
            /\ emergencies'[e].assigned_user = u
            /\ resp'.op # "assign" )
          => Copies(notifications', u, e, "assignment")
               <= Copies(notifications, u, e, "assignment")]_vars

\* C23: escalating an Emergency to role R sets status = escalated and
\* escalated_to = R and creates an escalation notification whose role is R
\* and whose user is not set.
C23_EscalateNotifiesRole ==
    [][\A e \in EmIds : \A R \in Roles :
          Escalate(e, R)
          => /\ emergencies'[e].status = "escalated"
             /\ emergencies'[e].escalated_to = R
             /\ \E x \in BagToSet(notifications') :
                   /\ x.type = "escalation" /\ x.emergency = e
                   /\ x.role = R /\ x.user = None
                   /\ CopiesIn(x, notifications') > CopiesIn(x, notifications)]_vars

\* C24: every notification has read_at set exactly when is_read is true.
C24_ReadAtIffIsRead ==
    \A x \in BagToSet(notifications) : (x.read_at # NoTime) <=> x.is_read

\* the Emergency created last for a room
LastEmergencyOf(room) ==
    LET ids == {i \in EmIds : emergencies[i].room = room}
    IN  CHOOSE i \in ids : \A j \in ids : j <= i

\* C28: for every room that has an Emergency, last_call_priority is the
\* priority of the Emergency created last for the room.
C28_LastCallPriorityDerived ==
    \A room \in Rooms :
       (\E i \in EmIds : emergencies[i].room = room)
       => last_call_priority[room] = emergencies[LastEmergencyOf(room)].priority

\* C26: slugs are collision-free and immutable: no two rows of a table
\* share a slug, a stored slug is never changed by a later save, and every
\* save of a row without a slug, concurrent ones included, ends with the
\* row stored under a slug that was unused.
C26_SlugsCollisionFreeAndImmutable ==
    [][ /\ \A k \in Kinds : \A x \in BagToSet(slugs'[k]) :
              CopiesIn(x, slugs'[k]) = 1
        /\ \A k \in Kinds : \A x \in BagToSet(slugs[k]) :
              CopiesIn(x, slugs'[k]) = CopiesIn(x, slugs[k])
        /\ \A w \in Workers :
              ( /\ saves'[w] # saves[w]
                /\ saves'[w].pc = "idle"
                /\ saves'[w].code # 200 )
              => /\ saves'[w].code = 201
                 /\ ~BagIn(saves'[w].slug, slugs[saves'[w].kind])
                 /\ BagIn(saves'[w].slug, slugs'[saves'[w].kind]) ]_vars

====
